---- MODULE Spec2Model ----
(***************************************************************************)
(* Model of appone.py: a Streamlit script that is re-executed from top to  *)
(* bottom on every interaction.  The live script is lines 1-135; lines     *)
(* 138-392 are a string literal that holds an earlier variant of the       *)
(* script (with the calendar event builder).                               *)
(*                                                                         *)
(* Spec        the live script (lines 85-135 and the functions they call). *)
(* SpecQuoted  the calendar sections of the quoted variant (lines 357-391  *)
(*             and add_event_to_calendar, lines 295-310).                  *)
(*                                                                         *)
(* Text is modelled as a sequence of character codes, so that str(),       *)
(* isoformat(), strip() and the store's string ordering are computed.      *)
(***************************************************************************)
EXTENDS Integers, Sequences, FiniteSets, TLC

\* ---------------------------------------------------------------- bounds
MaxClicks == 2      \* Add Task clicks in one session
MaxEvents == 1      \* events the Calendar Service accepts in one session

\* ---------------------------------------------------------------- text
\* character codes
Chr == [space |-> 32, dash |-> 45, zero |-> 48, colon |-> 58, T |-> 84, a |-> 97]

Digit(n) == Chr.zero + n

\* zero-padded decimal, as %02d / %04d
Pad2(n) == <<Digit((n \div 10) % 10), Digit(n % 10)>>
Pad4(n) == <<Digit((n \div 1000) % 10), Digit((n \div 100) % 10)>> \o Pad2(n)

\* date.__str__ / date.isoformat: YYYY-MM-DD
DateStr(d) == Pad4(d.year) \o <<Chr.dash>> \o Pad2(d.month) \o <<Chr.dash>> \o Pad2(d.day)

\* str.strip(): drop leading and trailing whitespace
RECURSIVE LStrip(_)
LStrip(s) == IF s # <<>> /\ Head(s) = Chr.space THEN LStrip(Tail(s)) ELSE s
RECURSIVE RStrip(_)
RStrip(s) == IF s # <<>> /\ s[Len(s)] = Chr.space THEN RStrip(SubSeq(s, 1, Len(s) - 1)) ELSE s
strip(s) == RStrip(LStrip(s))

\* lexicographic order of sequences of numbers, a proper prefix first
RECURSIVE LexLess(_, _)
LexLess(s, t) ==
    IF t = <<>> THEN FALSE
    ELSE IF s = <<>> THEN TRUE
    ELSE IF Head(s) # Head(t) THEN Head(s) < Head(t)
    ELSE LexLess(Tail(s), Tail(t))

\* ordering of string values in the store: by code unit
StrLess(s, t) == LexLess(s, t)

\* datetime.combine(date, time)
combine(d, t) == [year |-> d.year, month |-> d.month, day |-> d.day,
                  hour |-> t.hour, minute |-> t.minute]

\* datetime.__le__ on naive datetimes: field by field, most significant first
Fields(dt) == <<dt.year, dt.month, dt.day, dt.hour, dt.minute>>
DtLeq(a, b) == ~LexLess(Fields(b), Fields(a))

\* datetime.isoformat() with zero seconds and microseconds: YYYY-MM-DDTHH:MM:SS
isoformat(dt) ==
    DateStr(dt) \o <<Chr.T>> \o Pad2(dt.hour) \o <<Chr.colon>> \o Pad2(dt.minute)
                \o <<Chr.colon>> \o Pad2(0)

\* ---------------------------------------------------------------- inputs
Texts == {<<>>, <<Chr.space>>, <<Chr.a>>}          \* "", " ", "a"
Prompts == {<<>>, <<Chr.a>>}                       \* "", "a"
Codes == {<<>>, <<Chr.a>>}
\* the live script reads a task description only to store and show it
Descriptions == {<<>>, <<Chr.a>>}                  \* "", "a"
\* two days whose day numbers differ in length
Dates == {[year |-> 2024, month |-> 1, day |-> 9], [year |-> 2024, month |-> 1, day |-> 10]}
Today == [year |-> 2024, month |-> 1, day |-> 9]
Times == {[hour |-> 9, minute |-> 0], [hour |-> 10, minute |-> 0], [hour |-> 11, minute |-> 0]}
TimeNow == [hour |-> 10, minute |-> 0]
TimeInAnHour == [hour |-> 11, minute |-> 0]
Buttons == {"Ask Gemini", "Add Task", "Get Reminders"}
AllWidgets == {"user_input", "Ask Gemini", "Show", "task_desc", "task_due", "Add Task",
               "selected_date", "Get Reminders", "code"}

VARIABLES
    task_collection,   \* the Firestore collection: its documents in creation order
    now,               \* datetime.now(), a counter
    session_state,     \* keys held in st.session_state
    user_input, show, task_desc, task_due, selected_date, code,    \* widget values
    clicked,           \* the button whose click caused this run, or "none"
    rendered,          \* widgets rendered by the current (or last) run
    pc,                \* position of the script run
    ui,                \* elements rendered by the current (or last) run
    requests,          \* external requests issued by the current (or last) run
    tasks,             \* local `tasks` of the Show section
    daily_tasks,       \* local `daily_tasks` of the reminders section
    fault,             \* the run was ended by an uncaught exception
    add_clicks,        \* Add Task clicks so far
    add_ok,            \* add_task calls that returned so far
    event_summary, event_start, event_start_time, event_end, event_end_time,
    show_events,       \* widget values of the quoted variant's calendar sections
    calendar           \* bodies the Calendar Service has accepted, in order

vars == <<task_collection, now, session_state, user_input, show, task_desc, task_due,
          selected_date, code, clicked, rendered, pc, ui, requests, tasks, daily_tasks,
          fault, add_clicks, add_ok, event_summary, event_start, event_start_time,
          event_end, event_end_time, show_events, calendar>>

widgets == <<user_input, show, task_desc, task_due, selected_date, code>>

event_widgets == <<event_summary, event_start, event_start_time, event_end,
                   event_end_time, show_events>>

\* what the live script never touches
quoted == <<event_widgets, calendar>>

\* what the quoted calendar sections never touch
live == <<task_collection, now, session_state, widgets, tasks, daily_tasks,
          add_clicks, add_ok>>

\* ---------------------------------------------------------------- helpers
Msg(kind, text, data) == [kind |-> kind, text |-> text, data |-> data]
Req(op, ok) == [op |-> op, ok |-> ok, body |-> <<>>]
ReqBody(op, ok, body) == [op |-> op, ok |-> ok, body |-> body]

\* a button that reads as pressed in every run, as a checkbox would
button_held(label) == TRUE

\* st.button(label): true only in the run its click caused
button(label) == clicked = label

\* ---------------------------------------------------------------- task store
\* The collection is the sequence of its documents in creation order; a
\* document's position stands for its auto-generated id, which the script
\* never reads.  A query answers with snapshots in an order the store picks
\* among those its ordering clause allows.

\* a write under a fixed document id, which replaces the document it finds
add_task_set(store, description, due_date, created_at) ==
    <<[description |-> description, due_date |-> due_date, created_at |-> created_at]>>

\* a write that is sent twice
add_task_twice(store, description, due_date, created_at) ==
    store \o <<[description |-> description, due_date |-> due_date,
                created_at |-> created_at],
               [description |-> description, due_date |-> due_date,
                created_at |-> created_at]>>

\* add_task: task_collection.add({...})
add_task(store, description, due_date, created_at) ==
    Append(store, [description |-> description, due_date |-> due_date,
                   created_at |-> created_at])

Snapshot(store, i) == [id |-> i, data |-> store[i]]

\* the ways of streaming the documents ids, each once
Streams(store, ids) ==
    {[k \in 1..Cardinality(ids) |-> Snapshot(store, p[k])] :
        p \in {q \in [1..Cardinality(ids) -> ids] :
                  \A a, b \in 1..Cardinality(ids) : a # b => q[a] # q[b]}}

\* the stream of the whole collection without the order_by clause
get_tasks_unordered(store) == Streams(store, DOMAIN store)

\* get_tasks: task_collection.order_by("due_date").stream()
get_tasks(store) ==
    {s \in Streams(store, DOMAIN store) :
        \A a, b \in 1..Len(s) :
            a < b => ~StrLess(s[b].data.due_date, s[a].data.due_date)}

\* the filter with "<=" for "=="
get_tasks_up_to_date(store, selected) ==
    Streams(store, {i \in DOMAIN store : ~StrLess(selected, store[i].due_date)})

\* get_tasks_for_date: task_collection.where("due_date", "==", selected_date).stream()
get_tasks_for_date(store, selected) ==
    Streams(store, {i \in DOMAIN store : store[i].due_date = selected})

\* ---------------------------------------------------------------- initial state
\* the state after the page's first run: default widget values, nothing clicked,
\* the Show box unticked and no credentials, so that run issued no request
Defaults ==
    /\ task_collection = <<>>
    /\ now = 0
    /\ session_state = {}
    /\ user_input = <<>>
    /\ show = FALSE
    /\ task_desc = <<>>
    /\ task_due = Today
    /\ selected_date = Today
    /\ code = <<>>
    /\ clicked = "none"
    /\ pc = "idle"
    /\ requests = <<>>
    /\ tasks = <<>>
    /\ daily_tasks = <<>>
    /\ fault = FALSE
    /\ add_clicks = 0
    /\ add_ok = 0
    /\ event_summary = <<>>
    /\ event_start = Today
    /\ event_start_time = TimeNow
    /\ event_end = Today
    /\ event_end_time = TimeInAnHour
    /\ show_events = FALSE
    /\ calendar = <<>>

Init ==
    /\ Defaults
    /\ rendered = AllWidgets
    /\ ui = <<Msg("markdown", "auth link", <<>>)>>

\* ---------------------------------------------------------------- interactions
\* every interaction starts a run of the script from the top
StartRun(b) ==
    /\ pc = "idle"
    /\ pc' = "gemini"
    /\ clicked' = b
    /\ rendered' = {}
    /\ ui' = <<>>
    /\ requests' = <<>>
    /\ tasks' = <<>>
    /\ daily_tasks' = <<>>
    /\ fault' = FALSE
    /\ UNCHANGED <<task_collection, now, session_state, add_ok, quoted>>

TypeUserInput ==
    /\ "user_input" \in rendered
    /\ \E v \in Prompts \ {user_input} : user_input' = v
    /\ StartRun("none")
    /\ UNCHANGED <<show, task_desc, task_due, selected_date, code, add_clicks>>

ToggleShow ==
    /\ "Show" \in rendered
    /\ show' = ~show
    /\ StartRun("none")
    /\ UNCHANGED <<user_input, task_desc, task_due, selected_date, code, add_clicks>>

TypeTaskDesc ==
    /\ "task_desc" \in rendered
    /\ \E v \in Descriptions \ {task_desc} : task_desc' = v
    /\ StartRun("none")
    /\ UNCHANGED <<user_input, show, task_due, selected_date, code, add_clicks>>

PickTaskDue ==
    /\ "task_due" \in rendered
    /\ \E d \in Dates \ {task_due} : task_due' = d
    /\ StartRun("none")
    /\ UNCHANGED <<user_input, show, task_desc, selected_date, code, add_clicks>>

PickSelectedDate ==
    /\ "selected_date" \in rendered
    /\ \E d \in Dates \ {selected_date} : selected_date' = d
    /\ StartRun("none")
    /\ UNCHANGED <<user_input, show, task_desc, task_due, code, add_clicks>>

PasteCode ==
    /\ "code" \in rendered
    /\ \E v \in Codes \ {code} : code' = v
    /\ StartRun("none")
    /\ UNCHANGED <<user_input, show, task_desc, task_due, selected_date, add_clicks>>

ClickButton ==
    /\ \E b \in Buttons :
        /\ b \in rendered
        /\ b = "Add Task" => add_clicks < MaxClicks
        /\ add_clicks' = IF b = "Add Task" THEN add_clicks + 1 ELSE add_clicks
        /\ StartRun(b)
    /\ UNCHANGED widgets

\* ---------------------------------------------------------------- script sections
\* an exception nobody catches ends the run; Streamlit shows it and waits
Abort(op, ws) ==
    /\ requests' = Append(requests, Req(op, FALSE))
    /\ ui' = Append(ui, Msg("exception", op, <<>>))
    /\ rendered' = rendered \cup ws
    /\ fault' = TRUE
    /\ pc' = "idle"

\* lines 90-94
GeminiSection ==
    /\ pc = "gemini"
    /\ IF button("Ask Gemini") /\ user_input # <<>>
       THEN \/ /\ requests' = Append(requests, Req("generate_content", TRUE))
               /\ ui' = Append(ui, Msg("success", "response", user_input))
               /\ rendered' = rendered \cup {"user_input", "Ask Gemini"}
               /\ pc' = "show"
               /\ UNCHANGED fault
            \/ Abort("generate_content", {"user_input", "Ask Gemini"})
       ELSE /\ rendered' = rendered \cup {"user_input", "Ask Gemini"}
            /\ pc' = "show"
            /\ UNCHANGED <<requests, ui, fault>>
    /\ UNCHANGED <<quoted, task_collection, now, session_state, widgets, clicked, tasks,
                   daily_tasks, add_clicks, add_ok>>

TaskLine(snap) == Msg("markdown", "task", <<snap.data.description, snap.data.due_date>>)

\* lines 97-102
ShowSection ==
    /\ pc = "show"
    /\ IF show
       THEN \/ /\ requests' = Append(requests, Req("tasks.order_by", TRUE))
               /\ \E stream \in get_tasks(task_collection) :
                   /\ tasks' = stream
                   /\ ui' = ui \o <<Msg("subheader", "Your Tasks", <<>>)>>
                               \o [k \in 1..Len(stream) |-> TaskLine(stream[k])]
               /\ rendered' = rendered \cup {"Show"}
               /\ pc' = "add"
               /\ UNCHANGED fault
            \/ /\ Abort("tasks.order_by", {"Show"})
               /\ UNCHANGED tasks
       ELSE /\ rendered' = rendered \cup {"Show"}
            /\ pc' = "add"
            /\ UNCHANGED <<requests, ui, fault, tasks>>
    /\ UNCHANGED <<quoted, task_collection, now, session_state, widgets, clicked,
                   daily_tasks, add_clicks, add_ok>>

AddWidgets == {"task_desc", "task_due", "Add Task"}

\* lines 104-109
AddSection ==
    /\ pc = "add"
    /\ IF button("Add Task")
       THEN \/ /\ task_collection' =
                      add_task(task_collection, task_desc, DateStr(task_due), now)
               /\ now' = now + 1
               /\ add_ok' = add_ok + 1
               /\ requests' = Append(requests, Req("tasks.add", TRUE))
               /\ ui' = Append(ui, Msg("success", "Task added!", <<>>))
               /\ rendered' = rendered \cup AddWidgets
               /\ pc' = "reminders"
               /\ UNCHANGED fault
            \/ /\ Abort("tasks.add", AddWidgets)
               /\ UNCHANGED <<task_collection, now, add_ok>>
       ELSE /\ rendered' = rendered \cup AddWidgets
            /\ pc' = "reminders"
            /\ UNCHANGED <<requests, ui, fault, task_collection, now, add_ok>>
    /\ UNCHANGED <<quoted, session_state, widgets, clicked, tasks, daily_tasks, add_clicks>>

ReminderLine(snap) == Msg("markdown", "reminder", snap.data.description)

ReminderWidgets == {"selected_date", "Get Reminders"}

\* lines 111-122
RemindersSection ==
    /\ pc = "reminders"
    /\ IF button("Get Reminders")
       THEN \/ \E found \in get_tasks_for_date(task_collection, DateStr(selected_date)) :
                  /\ requests' = Append(requests, Req("tasks.where", TRUE))
                  /\ daily_tasks' = found
                  /\ ui' = ui \o <<Msg("subheader", "Tasks for", DateStr(selected_date))>>
                              \o [k \in 1..Len(found) |-> ReminderLine(found[k])]
                              \o (IF Len(found) = 0
                                  THEN <<Msg("info", "No tasks found for this date.", <<>>)>>
                                  ELSE <<>>)
                  /\ rendered' = rendered \cup ReminderWidgets
                  /\ pc' = "auth"
                  /\ UNCHANGED fault
            \/ /\ Abort("tasks.where", ReminderWidgets)
               /\ UNCHANGED daily_tasks
       ELSE /\ rendered' = rendered \cup ReminderWidgets
            /\ pc' = "auth"
            /\ UNCHANGED <<requests, ui, fault, daily_tasks>>
    /\ UNCHANGED <<quoted, task_collection, now, session_state, widgets, clicked, tasks,
                   add_clicks, add_ok>>

\* the flow run on every call, whatever the session holds
NeedsAuthAlways(state) == TRUE

\* line 27
NeedsAuth(state) == "credentials" \notin state

\* lines 26-39, called at line 126
authenticate_google ==
    /\ pc = "auth"
    /\ IF NeedsAuth(session_state)
       THEN IF code # <<>>
            THEN \/ /\ requests' = Append(requests, Req("fetch_token", TRUE))
                    /\ session_state' = session_state \cup {"credentials"}
                    /\ ui' = ui \o <<Msg("markdown", "auth link", <<>>),
                                     Msg("success", "Authenticated successfully!", <<>>)>>
                    /\ rendered' = rendered \cup {"code"}
                    /\ pc' = "events"
                    /\ UNCHANGED fault
                 \/ /\ requests' = Append(requests, Req("fetch_token", FALSE))
                    /\ ui' = ui \o <<Msg("markdown", "auth link", <<>>),
                                     Msg("exception", "fetch_token", <<>>)>>
                    /\ rendered' = rendered \cup {"code"}
                    /\ fault' = TRUE
                    /\ pc' = "idle"
                    /\ UNCHANGED session_state
            ELSE /\ ui' = Append(ui, Msg("markdown", "auth link", <<>>))
                 /\ rendered' = rendered \cup {"code"}
                 /\ pc' = "events"
                 /\ UNCHANGED <<requests, session_state, fault>>
       ELSE /\ pc' = "events"
            /\ UNCHANGED <<requests, session_state, ui, rendered, fault>>
    /\ UNCHANGED <<quoted, task_collection, now, widgets, clicked, tasks, daily_tasks,
                   add_clicks, add_ok>>

\* what events().list() can answer: at most maxResults items, here none or one
Upcoming == {<<>>, <<[summary |-> <<Chr.a>>, start |-> <<Today, 10>>]>>}

EventLine(e) == Msg("markdown", "event", e.summary)

\* lines 41-52 and 127-135
CalendarSection ==
    /\ pc = "events"
    /\ IF "credentials" \in session_state
       THEN \* get_calendar_events: creds is set, so no warning
            \/ \E events \in Upcoming :
               /\ requests' = Append(requests, Req("events.list", TRUE))
               /\ ui' = IF events # <<>>
                        THEN ui \o <<Msg("subheader", "Upcoming Events", <<>>)>>
                                \o [k \in 1..Len(events) |-> EventLine(events[k])]
                        ELSE Append(ui, Msg("info", "No upcoming events found.", <<>>))
               /\ pc' = "idle"
               /\ UNCHANGED <<fault, rendered>>
            \/ Abort("events.list", {})
       ELSE /\ pc' = "idle"
            /\ UNCHANGED <<requests, ui, fault, rendered>>
    /\ UNCHANGED <<quoted, task_collection, now, session_state, widgets, clicked, tasks,
                   daily_tasks, add_clicks, add_ok>>

Next ==
    \/ TypeUserInput
    \/ ToggleShow
    \/ TypeTaskDesc
    \/ PickTaskDue
    \/ PickSelectedDate
    \/ PasteCode
    \/ ClickButton
    \/ GeminiSection
    \/ ShowSection
    \/ AddSection
    \/ RemindersSection
    \/ authenticate_google
    \/ CalendarSection

Spec == Init /\ [][Next]_vars

\* ---------------------------------------------------------------- quoted variant
\* Lines 357-391 and the functions they call (272-310).  Every call of these
\* two sections is inside try/except, so a run always reaches the end.
QuotedWidgets == {"show_events", "event_summary", "event_start", "event_start_time",
                  "event_end", "event_end_time", "Add Event to Google Calendar"}

InitQuoted ==
    /\ Defaults
    /\ rendered = QuotedWidgets
    /\ ui = <<>>

StartRunQuoted(b) ==
    /\ pc = "idle"
    /\ pc' = "q_events"
    /\ clicked' = b
    /\ ui' = <<>>
    /\ requests' = <<>>
    /\ fault' = FALSE
    /\ UNCHANGED <<live, rendered, calendar>>

ToggleShowEvents ==
    /\ show_events' = ~show_events
    /\ StartRunQuoted("none")
    /\ UNCHANGED <<event_summary, event_start, event_start_time, event_end, event_end_time>>

TypeEventSummary ==
    /\ \E v \in Texts \ {event_summary} : event_summary' = v
    /\ StartRunQuoted("none")
    /\ UNCHANGED <<show_events, event_start, event_start_time, event_end, event_end_time>>

PickEventStart ==
    /\ \E d \in Dates \ {event_start} : event_start' = d
    /\ StartRunQuoted("none")
    /\ UNCHANGED <<show_events, event_summary, event_start_time, event_end, event_end_time>>

PickEventStartTime ==
    /\ \E t \in Times \ {event_start_time} : event_start_time' = t
    /\ StartRunQuoted("none")
    /\ UNCHANGED <<show_events, event_summary, event_start, event_end, event_end_time>>

PickEventEnd ==
    /\ \E d \in Dates \ {event_end} : event_end' = d
    /\ StartRunQuoted("none")
    /\ UNCHANGED <<show_events, event_summary, event_start, event_start_time, event_end_time>>

PickEventEndTime ==
    /\ \E t \in Times \ {event_end_time} : event_end_time' = t
    /\ StartRunQuoted("none")
    /\ UNCHANGED <<show_events, event_summary, event_start, event_start_time, event_end>>

ClickAddEvent ==
    /\ Len(calendar) < MaxEvents
    /\ StartRunQuoted("Add Event to Google Calendar")
    /\ UNCHANGED event_widgets

QuotedEventLine(e) == Msg("write", "event", e.summary)

\* lines 357-368, list_upcoming_events (283-293)
QuotedEventsSection ==
    /\ pc = "q_events"
    /\ IF show_events
       THEN \/ \E events \in Upcoming :
               /\ requests' = Append(requests, Req("events.list", TRUE))
               /\ ui' = IF events = <<>>
                        THEN Append(ui, Msg("write", "No upcoming events found.", <<>>))
                        ELSE ui \o [k \in 1..Len(events) |-> QuotedEventLine(events[k])]
            \/ /\ requests' = Append(requests, Req("events.list", FALSE))
               /\ ui' = Append(ui, Msg("error", "Failed to fetch calendar events", <<>>))
       ELSE UNCHANGED <<requests, ui>>
    /\ pc' = "q_add_event"
    /\ UNCHANGED <<live, quoted, clicked, rendered, fault>>

\* line 382
SummaryMissing(summary) == strip(summary) = <<>>

\* the comparison with "<" for "<="
EndBeforeStart(start_datetime, end_datetime) ==
    LexLess(Fields(end_datetime), Fields(start_datetime))

\* line 384
EndNotAfterStart(start_datetime, end_datetime) == DtLeq(end_datetime, start_datetime)

\* the body with the start instant in both places
EventBodyStartTwice(summary, start_time, end_time) ==
    [summary |-> summary,
     start |-> [dateTime |-> isoformat(start_time), timeZone |-> "UTC"],
     end |-> [dateTime |-> isoformat(start_time), timeZone |-> "UTC"]]

\* the body add_event_to_calendar builds, lines 297-307
EventBody(summary, start_time, end_time) ==
    [summary |-> summary,
     start |-> [dateTime |-> isoformat(start_time), timeZone |-> "UTC"],
     end |-> [dateTime |-> isoformat(end_time), timeZone |-> "UTC"]]

\* lines 370-391, add_event_to_calendar (295-310)
QuotedAddEventSection ==
    /\ pc = "q_add_event"
    /\ LET start_datetime == combine(event_start, event_start_time)
           end_datetime == combine(event_end, event_end_time)
           event == EventBody(event_summary, start_datetime, end_datetime)
       IN IF button("Add Event to Google Calendar")
          THEN IF SummaryMissing(event_summary)
               THEN /\ ui' = Append(ui, Msg("error", "Event title cannot be empty.", <<>>))
                    /\ UNCHANGED <<requests, calendar>>
               ELSE IF EndNotAfterStart(start_datetime, end_datetime)
               THEN /\ ui' = Append(ui, Msg("error", "End time must be after start time.", <<>>))
                    /\ UNCHANGED <<requests, calendar>>
               ELSE \/ /\ requests' = Append(requests, ReqBody("events.insert", TRUE, event))
                       /\ calendar' = Append(calendar, event)
                       /\ ui' = Append(ui, Msg("success", "Event created!", <<>>))
                    \/ /\ requests' = Append(requests, ReqBody("events.insert", FALSE, event))
                       /\ ui' = Append(ui, Msg("error", "Failed to add event", <<>>))
                       /\ UNCHANGED calendar
          ELSE UNCHANGED <<requests, ui, calendar>>
    /\ pc' = "idle"
    /\ UNCHANGED <<live, event_widgets, clicked, rendered, fault>>

NextQuoted ==
    \/ ToggleShowEvents
    \/ TypeEventSummary
    \/ PickEventStart
    \/ PickEventStartTime
    \/ PickEventEnd
    \/ PickEventEndTime
    \/ ClickAddEvent
    \/ QuotedEventsSection
    \/ QuotedAddEventSection

SpecQuoted == InitQuoted /\ [][NextQuoted]_vars

\* ---------------------------------------------------------------- properties
IsDigit(c) == c >= Chr.zero /\ c <= Chr.zero + 9

\* the decimal numbers written in a text, in order: "2024-01-09" gives <<2024, 1, 9>>
RECURSIVE ReadNumbers(_, _, _)
ReadNumbers(s, cur, out) ==
    IF s = <<>> THEN Append(out, cur)
    ELSE IF IsDigit(Head(s)) THEN ReadNumbers(Tail(s), cur * 10 + (Head(s) - Chr.zero), out)
    ELSE ReadNumbers(Tail(s), 0, Append(out, cur))
Numbers(s) == ReadNumbers(s, 0, <<>>)

\* calendar order of two instants given as <<year, month, day, ...>>
Earlier(a, b) == LexLess(a, b)

Sent(op) == \E i \in 1..Len(requests) : requests[i].op = op
Answered(op) == \E i \in 1..Len(requests) : requests[i].op = op /\ requests[i].ok
Shown(kind, text) == \E i \in 1..Len(ui) : ui[i].kind = kind /\ ui[i].text = text
Blank(s) == \A i \in 1..Len(s) : s[i] = Chr.space
RunOver == pc = "idle"

\* C1: Add Task with an empty or whitespace-only description adds no record and
\* reports a failure, not "Task added!".
C1_EmptyDescriptionFails ==
    (clicked = "Add Task" /\ Blank(task_desc)) =>
        /\ ~Answered("tasks.add")
        /\ ~Shown("success", "Task added!")
        /\ (RunOver /\ ~fault) => \E k \in 1..Len(ui) : ui[k].kind = "error"

\* C2: the listing is the whole store, each document once, in ascending order of
\* due date.
C2_ListIsSortedPermutation ==
    (pc = "add" /\ Answered("tasks.order_by")) =>
        /\ Len(tasks) = Len(task_collection)
        /\ \A i \in DOMAIN task_collection :
               Cardinality({k \in 1..Len(tasks) : tasks[k].id = i}) = 1
        /\ \A k \in 1..Len(tasks) : tasks[k].data = task_collection[tasks[k].id]
        /\ \A k \in 1..(Len(tasks) - 1) :
               ~Earlier(Numbers(tasks[k + 1].data.due_date), Numbers(tasks[k].data.due_date))
        /\ SelectSeq(ui, LAMBDA m : m.text = "task") =
               [k \in 1..Len(tasks) |->
                   Msg("markdown", "task", <<tasks[k].data.description, tasks[k].data.due_date>>)]

C2_Witness ==
    /\ pc = "add" /\ Answered("tasks.order_by")
    /\ Len(tasks) = 2
    /\ tasks[1].id = 2
    /\ tasks[1].data.due_date # tasks[2].data.due_date

\* C3: the date filter returns exactly the documents whose due_date equals the
\* selected date, and an empty result is shown as "No tasks found for this date.".
C3_FilterIsExact ==
    Answered("tasks.where") =>
        /\ \A k \in 1..Len(daily_tasks) :
               /\ Numbers(daily_tasks[k].data.due_date) =
                      <<selected_date.year, selected_date.month, selected_date.day>>
               /\ daily_tasks[k].data = task_collection[daily_tasks[k].id]
        /\ \A i \in DOMAIN task_collection :
               Numbers(task_collection[i].due_date) =
                   <<selected_date.year, selected_date.month, selected_date.day>>
               => Cardinality({k \in 1..Len(daily_tasks) : daily_tasks[k].id = i}) = 1
        /\ (\A i \in DOMAIN task_collection :
               Numbers(task_collection[i].due_date) #
                   <<selected_date.year, selected_date.month, selected_date.day>>)
           => /\ daily_tasks = <<>>
              /\ Shown("info", "No tasks found for this date.")
              /\ ~Shown("exception", "tasks.where")
        /\ Shown("info", "No tasks found for this date.") => daily_tasks = <<>>

C3_Witness ==
    /\ Answered("tasks.where")
    /\ Len(task_collection) = 2
    /\ Len(daily_tasks) = 1

\* minutes from the start of year 0 in a calendar of 31-day months: grows with the instant
Minutes(d, t) == (((d.year * 12 + d.month) * 31 + d.day) * 24 + t.hour) * 60 + t.minute

EndAfterStart == Minutes(event_end, event_end_time) > Minutes(event_start, event_start_time)

Instant(d, t) == <<d.year, d.month, d.day, t.hour, t.minute, 0>>

OneInsertOfTheForm ==
    /\ Cardinality({i \in 1..Len(requests) : requests[i].op = "events.insert"}) = 1
    /\ \A i \in 1..Len(requests) :
           requests[i].op = "events.insert" =>
               /\ requests[i].body.summary = event_summary
               /\ Numbers(requests[i].body.start.dateTime) = Instant(event_start, event_start_time)
               /\ Numbers(requests[i].body.end.dateTime) = Instant(event_end, event_end_time)
               /\ requests[i].body.start.timeZone = "UTC"
               /\ requests[i].body.end.timeZone = "UTC"

C6_TasksImmutable ==
    [][/\ Len(task_collection') >= Len(task_collection)
       /\ \A i \in DOMAIN task_collection : task_collection'[i] = task_collection[i]
       /\ pc \in {"show", "reminders"} => task_collection' = task_collection]_vars

C6_Witness ==
    /\ RunOver
    /\ Len(task_collection) = 2
    /\ Answered("tasks.order_by")
    /\ Answered("tasks.where")

\* C7: a failed external call is caught where it is made and shown as a message;
\* it does not end the run, and it is not sent again.
C7_FailuresCaught ==
    /\ \A i \in 1..Len(requests) :
           ~requests[i].ok => (~fault /\ \E k \in 1..Len(ui) : ui[k].kind = "error")
    /\ \A i, j \in 1..Len(requests) : requests[i].op = requests[j].op => i = j

\* C8 as stated: a run issues at most one external request.
C8_OneRequestPerRun == Len(requests) <= 1

Ops(set) == Cardinality({i \in 1..Len(requests) : requests[i].op \in set})
AtMost(b) == IF b THEN 1 ELSE 0

\* C8: a run issues at most one request for the button that was clicked, and
\* besides it one listing if Show is ticked, one token exchange if a code is
\* pasted, and one events.list if credentials are held.
C8_RequestsPerRun ==
    /\ Ops({"generate_content", "tasks.add", "tasks.where"}) <= AtMost(clicked # "none")
    /\ Ops({"tasks.order_by"}) <= AtMost(show)
    /\ Ops({"fetch_token"}) <= AtMost(code # <<>>)
    /\ Ops({"events.list"}) <= AtMost("credentials" \in session_state)
    /\ Len(requests) = Ops({"generate_content", "tasks.add", "tasks.where",
                            "tasks.order_by", "fetch_token", "events.list"})

C8_Witness ==
    /\ RunOver
    /\ Len(requests) = 4
    /\ clicked = "Add Task"

\* C9 as stated: between runs the store holds as many records as there were
\* Add Task clicks.
C9_RecordsEqualClicks == RunOver => Len(task_collection) = add_clicks

\* C9: the store holds one record for each add_task call that returned, never
\* more than there were Add Task clicks; a run calls add_task at most once, and
\* only the run an Add Task click caused calls it.
C9_OneRecordPerCall ==
    /\ Len(task_collection) = add_ok
    /\ add_ok <= add_clicks
    /\ Ops({"tasks.add"}) <= AtMost(clicked = "Add Task")
    /\ (RunOver /\ clicked = "Add Task" /\ ~fault) => Answered("tasks.add")

C9_Witness ==
    /\ RunOver
    /\ add_clicks = 2
    /\ Len(task_collection) = 2
    /\ clicked = "Ask Gemini"
    /\ Answered("generate_content")
    /\ show

HasCredentials == "credentials" \in session_state
AuthLinks == Cardinality({i \in 1..Len(ui) : ui[i].text = "auth link"})

\* C10: events.list is sent only while the session holds credentials and events
\* are shown only then; credentials are stored only by a token exchange for a
\* pasted code, are never removed, and once held the authorization flow is not
\* run again.
C10_CredentialsGuard ==
    [][/\ Ops({"events.list"})' > Ops({"events.list"}) => HasCredentials
       /\ Shown("markdown", "event")' => HasCredentials'
       /\ HasCredentials => HasCredentials'
       /\ (~HasCredentials /\ HasCredentials') =>
              /\ code # <<>>
              /\ requests' = Append(requests, Req("fetch_token", TRUE))
       /\ HasCredentials =>
              /\ Ops({"fetch_token"})' <= Ops({"fetch_token"})
              /\ AuthLinks' <= AuthLinks
              /\ "code" \in rendered' => "code" \in rendered]_vars

C10_Witness ==
    /\ RunOver
    /\ HasCredentials
    /\ Answered("events.list")
    /\ Shown("markdown", "event")
    /\ ~Sent("fetch_token")

TypeOK ==
    /\ pc \in {"idle", "gemini", "show", "add", "reminders", "auth", "events",
               "q_events", "q_add_event"}
    /\ Len(task_collection) <= MaxClicks
    /\ add_clicks \in 0..MaxClicks
====
